---- MODULE Spec2Model ----
(***************************************************************************)
(* A model of qt3utils' PulseBlaster pulsers                               *)
(* (src/src/qt3utils/experiments/pulsers/pulseblaster.py).                 *)
(*                                                                         *)
(* One pulser object is constructed (Init) and its public methods are then *)
(* called one after the other.  The program is synchronous: one action is  *)
(* one complete method call, with every driver call it makes.              *)
(*                                                                         *)
(* Representation.                                                         *)
(*  - Times are counted in nanoseconds.  Stored parameters and arguments   *)
(*    are integers; intermediate results are exact rationals <<num, den>>  *)
(*    (den > 0), so that /2 and /(n+1) lose nothing.  Binary floating      *)
(*    point error is not modelled.                                         *)
(*  - int(x*1e9) is truncation toward zero (int_ns); np.round(x, 8) is     *)
(*    rounding to the nearest multiple of 10 ns, halves to even            *)
(*    (np_round8); np.round(x).astype(int) is np_round.                    *)
(*  - Python None is the empty tuple, a present value x is <<x>>.          *)
(*  - The spinapi driver is the environment: which of its status-returning *)
(*    functions return nonzero during a call is the set F, chosen freely.  *)
(*  - calls, on_time, last and prev record the last method call for the    *)
(*    properties below; no method reads them.  Return clears the record    *)
(*    (the caller has seen the outcome) and the next call is made from the *)
(*    object and the board as the last call left them.                     *)
(*                                                                         *)
(* Three specifications.                                                   *)
(*  - Spec: the method calls of one pulser object, one after the other.    *)
(*  - SpecThreads: two callers of one object whose running methods issue   *)
(*    their driver calls one at a time, serialized by the callers or not.  *)
(*  - SpecLoader: load_library calls of src/src/qt3utils/load_lib.py on    *)
(*    the loader's list of search directories and the library registry.    *)
(***************************************************************************)
EXTENDS Integers, Sequences, FiniteSets

VARIABLES
    self,        \* the pulser object's attributes
    board_open,  \* the driver holds an initialised board handle
    calls,       \* driver / PBInd calls issued by the last method call, in order
    on_time,     \* on_time the last PBInd was built with (None if none was built)
    last,        \* the last method call: name, arguments, exception, return value
    prev,        \* the object's attributes when the last method call began
    threads,     \* two callers sharing the object (SpecThreads): their running
                 \* method calls and the driver calls of both, in order
    other_dirs,        \* load_lib: _library_loader.other_dirs, a list of paths
    library_registry,  \* load_lib: the registry names that hold a Library
    loaded             \* load_lib: the last load_library call and its outcome

loader_vars == <<other_dirs, library_registry, loaded>>
pulser_vars == <<self, board_open, calls, on_time, last, prev, threads>>
vars == <<self, board_open, calls, on_time, last, prev, threads,
          other_dirs, library_registry, loaded>>

----------------------------------------------------------------------------
(* Bounds of the model *)

\* largest n_refocussing_pi_pulses supplied
MaxN == 3
\* largest number of driver functions that return nonzero during one method call
MaxFaults == 2

----------------------------------------------------------------------------
(* Python values *)

None == << >>
Some(x) == <<x>>
IsNone(o) == o = << >>
Val(o) == o[1]

NoException == "none"

----------------------------------------------------------------------------
(* float arithmetic, exact *)

Q(n) == <<n, 1>>
QAdd(a, b) == <<a[1] * b[2] + b[1] * a[2], a[2] * b[2]>>
QSub(a, b) == <<a[1] * b[2] - b[1] * a[2], a[2] * b[2]>>
QMulInt(k, a) == <<k * a[1], a[2]>>
QDivInt(a, k) == <<a[1], a[2] * k>>
QLt(a, b) == a[1] * b[2] < b[1] * a[2]
QLe(a, b) == a[1] * b[2] <= b[1] * a[2]
QEq(a, b) == a[1] * b[2] = b[1] * a[2]

\* int(x*1e9): truncation toward zero
int_ns(q) == IF q[1] >= 0 THEN q[1] \div q[2] ELSE -((-q[1]) \div q[2])

\* np.round(x).astype(int): nearest integer, halves to the even neighbour
np_round(q) ==
    LET fl == q[1] \div q[2]
        r2 == 2 * (q[1] % q[2])
    IN  IF r2 < q[2] THEN fl
        ELSE IF r2 > q[2] THEN fl + 1
        ELSE IF fl % 2 = 0 THEN fl ELSE fl + 1

\* np.round(x, 8) of a time given in ns: nearest multiple of 10 ns
np_round8(ns) == 10 * np_round(<<ns, 10>>)

----------------------------------------------------------------------------
(* Constructor defaults used by the model *)

pb_board_number == 1
aom_channel == 0
rf_channel == 1
clock_channel == 2
trigger_channel == 3
\* pb_core_clock(100*MHz)
CoreClockMHz == 100
\* raise_for_pulse_width: rf_width < 50e-9
MinRfWidth == 50

----------------------------------------------------------------------------
(* The driver and the session (class PulseBlaster) *)

\* one driver call: function name, integer arguments, returned status
DriverCall(fn, args, ret) == [fn |-> fn, args |-> args, ret |-> ret]

\* status returned by driver function fn when the functions in F fail
Status(F, fn) == IF fn \in F THEN 1 ELSE 0

\* the diagnostic text the driver returns from pb_get_error()
pb_get_error == "pb_get_error()"

\* the running method call: calls issued so far, board handle, raised
\* exception, its __context__ (the exception that was being handled when it
\* was raised) and its message (the parts it was formatted from), PBInd on_time
NewCall(handle) ==
    [calls |-> << >>, handle |-> handle, exc |-> NoException,
     context |-> NoException, message |-> << >>, on_time |-> None]

Raised(c) == c.exc # NoException
\* raise outside any except clause: no __context__
Raise(c, e) == [c EXCEPT !.exc = e]
\* an exception raised inside "except ... as handled:"; re-raising the
\* handled exception itself leaves its __context__ alone
RaiseWhileHandling(c, e, handled) ==
    IF e = handled THEN Raise(c, e) ELSE [c EXCEPT !.exc = e, !.context = handled]
\* raise E(f'{ret}: {pb_get_error()}')
RaiseCodeAndText(c, e, ret) == [c EXCEPT !.exc = e, !.message = <<ret, pb_get_error>>]
\* raise E(pb_get_error())
RaiseText(c, e) == [c EXCEPT !.exc = e, !.message = <<pb_get_error>>]
Issue(c, fn, args, ret) == [c EXCEPT !.calls = Append(@, DriverCall(fn, args, ret))]

close(c, F) ==
    IF Raised(c) THEN c
    ELSE LET ret == Status(F, "pb_close")
             c1 == [Issue(c, "pb_close", << >>, ret)
                        EXCEPT !.handle = IF ret = 0 THEN FALSE ELSE @]
         IN  IF ret # 0 THEN RaiseCodeAndText(c1, "PulseBlasterError", ret) ELSE c1

stop_programming(c, F) ==
    IF Raised(c) THEN c
    ELSE LET ret == Status(F, "pb_stop_programming")
             c1 == Issue(c, "pb_stop_programming", << >>, ret)
         IN  IF ret # 0 THEN RaiseText(c1, "PulseBlasterError") ELSE c1

start_programming(c, F) ==
    IF Raised(c) THEN c
    ELSE LET ret == Status(F, "pb_start_programming")
             c1 == Issue(c, "pb_start_programming", <<0>>, ret)
         IN  IF ret # 0 THEN RaiseText(c1, "PulseBlasterError") ELSE c1

\* open() that raises on a failed pb_init without attempting close()
open_without_close(c, F) ==
    IF Raised(c) THEN c
    ELSE LET c1 == Issue(c, "pb_select_board", <<pb_board_number>>, 0)
             ret == Status(F, "pb_init")
             c2 == [Issue(c1, "pb_init", << >>, ret)
                        EXCEPT !.handle = IF ret = 0 THEN TRUE ELSE @]
         IN  IF ret # 0 THEN RaiseCodeAndText(c2, "PulseBlasterInitError", ret)
             ELSE Issue(c2, "pb_core_clock", <<CoreClockMHz>>, 0)

open(c, F) ==
    IF Raised(c) THEN c
    ELSE LET c1 == Issue(c, "pb_select_board", <<pb_board_number>>, 0)
             ret == Status(F, "pb_init")
             c2 == [Issue(c1, "pb_init", << >>, ret)
                        EXCEPT !.handle = IF ret = 0 THEN TRUE ELSE @]
         IN  IF ret # 0
             THEN \* if opening fails, attempt to close before raising error
                  LET c3 == close(c2, F)
                  IN  IF Raised(c3) THEN c3
                      ELSE RaiseCodeAndText(c3, "PulseBlasterInitError", ret)
             ELSE Issue(c2, "pb_core_clock", <<CoreClockMHz>>, 0)

\* a playback method that returns without closing the board
Playback_without_close(c, F, fn) ==
    LET c1 == open(c, F)
    IN  IF Raised(c1) THEN c1
        ELSE LET ret == Status(F, fn)
                 c2 == Issue(c1, fn, << >>, ret)
             IN  IF ret # 0 THEN RaiseCodeAndText(c2, "PulseBlasterError", ret)
                 ELSE c2

\* start / stop / reset: open, one playback command, close
Playback(c, F, fn) ==
    LET c1 == open(c, F)
    IN  IF Raised(c1) THEN c1
        ELSE LET ret == Status(F, fn)
                 c2 == Issue(c1, fn, << >>, ret)
             IN  IF ret # 0 THEN RaiseCodeAndText(c2, "PulseBlasterError", ret)
                 ELSE close(c2, F)

start(c, F) == Playback(c, F, "pb_start")
stop(c, F) == Playback(c, F, "pb_stop")
reset(c, F) == Playback(c, F, "pb_reset")

(* PBInd *)
PBInd(c, t) == IF Raised(c) THEN c ELSE [c EXCEPT !.on_time = Some(t)]
pb_on(c, ch, t0, dur) == IF Raised(c) THEN c ELSE Issue(c, "on", <<ch, t0, dur>>, 0)
pb_make_clock(c, ch, period) ==
    IF Raised(c) THEN c ELSE Issue(c, "make_clock", <<ch, period>>, 0)
\* float('inf'), the repeat count of pb.program
inf == "inf"
\* pb.program([], float('inf')): the returned status is not looked at
pb_program(c, F) ==
    IF Raised(c) THEN c
    ELSE Issue(c, "program", <<<< >>, inf>>, Status(F, "program"))

----------------------------------------------------------------------------
(* Driver faults *)

StatusFns(op) ==
    CASE op = "program_pulser_state" ->
            {"pb_init", "pb_close", "pb_start_programming", "program",
             "pb_stop_programming"}
      [] op = "start" -> {"pb_init", "pb_close", "pb_start"}
      [] op = "stop" -> {"pb_init", "pb_close", "pb_stop"}
      [] op = "reset" -> {"pb_init", "pb_close", "pb_reset"}

FaultSets(op) == {F \in SUBSET StatusFns(op) : Cardinality(F) <= MaxFaults}

----------------------------------------------------------------------------
(* The pulser objects *)

\* what a finished method call leaves: the object, the call, the return value
Result(s, c, ret) == [self |-> s, c |-> c, ret |-> IF Raised(c) THEN None ELSE ret]

\* an object without attributes
NoAttributes ==
    [cls |-> "", cycle_width |-> None, rf_width |-> None, clock_period |-> None,
     trigger_width |-> None, aom_width |-> None, aom_response_time |-> None,
     rf_response_time |-> None, pre_rf_pad |-> None, post_rf_pad |-> None,
     full_cycle_width |-> None, rf_pulse_justify |-> "",
     rf_pi_pulse_width |-> None, free_precession_time |-> None,
     n_refocussing_pi_pulses |-> None, pi_pulse_start_times |-> << >>,
     left_pi_over_2_pulse_start |-> None, right_pi_over_2_pulse_start |-> None,
     rf_start_and_duration |-> << >>]

(* PulseBlasterHoldAOM *)

HoldAOM_init(cycle_width) ==
    [NoAttributes EXCEPT !.cls = "HoldAOM", !.cycle_width = np_round8(cycle_width)]

\* the return statement reads the undefined name elf: NameError
HoldAOM_return(s) == [exc |-> "NameError", ret |-> None]

\* an upload that commits only after the programming bracket was closed
HoldAOM_program_pulser_state_late_commit(s, h, F) ==
    LET c1 == open(NewCall(h), F)
        c2 == PBInd(c1, int_ns(Q(s.cycle_width)))
        c3 == start_programming(c2, F)
        c4 == pb_on(c3, aom_channel, 0, int_ns(Q(s.cycle_width)))
        c5 == stop_programming(c4, F)
        c6 == pb_program(c5, F)
        c7 == close(c6, F)
        r  == HoldAOM_return(s)
    IN  IF Raised(c7) THEN Result(s, c7, None)
        ELSE IF r.exc # NoException THEN Result(s, Raise(c7, r.exc), None)
        ELSE Result(s, c7, r.ret)

HoldAOM_program_pulser_state(s, h, F) ==
    LET c1 == open(NewCall(h), F)
        c2 == PBInd(c1, int_ns(Q(s.cycle_width)))
        c3 == start_programming(c2, F)
        c4 == pb_on(c3, aom_channel, 0, int_ns(Q(s.cycle_width)))
        c5 == pb_program(c4, F)
        c6 == stop_programming(c5, F)
        c7 == close(c6, F)
        r  == HoldAOM_return(s)
    IN  IF Raised(c7) THEN Result(s, c7, None)
        ELSE IF r.exc # NoException THEN Result(s, Raise(c7, r.exc), None)
        ELSE Result(s, c7, r.ret)

(* PulseBlasterCWODMR *)

CWODMR_init(rf_width, clock_period, trigger_width) ==
    [NoAttributes EXCEPT !.cls = "CWODMR",
                         !.rf_width = np_round8(rf_width),
                         !.clock_period = np_round8(clock_period),
                         !.trigger_width = np_round8(trigger_width)]

\* a width check that never raises (as PulseBlasterHoldAOM's, whose body is pass)
CWODMR_raise_for_pulse_width_never(rf_width) == NoException

\* the exception raise_for_pulse_width raises, or NoException
CWODMR_raise_for_pulse_width(rf_width) ==
    IF rf_width < MinRfWidth THEN "PulseTrainWidthError" ELSE NoException

\* "if rf_width:" is taken when the argument is neither None nor 0
Truthy(o) == ~IsNone(o) /\ Val(o) # 0

\* a cycle as long as the RF pulse (the factor 2 of the 50% duty cycle left out)
CWODMR_cycle_length_no_off_half(s) == s.rf_width

\* cycle_length = 2 * self.rf_width
CWODMR_cycle_length(s) == 2 * s.rf_width

CWODMR_program_pulser_state(s, rf_width, h, F) ==
    LET e  == IF Truthy(rf_width) THEN CWODMR_raise_for_pulse_width(Val(rf_width))
              ELSE CWODMR_raise_for_pulse_width(s.rf_width)
        s1 == IF Truthy(rf_width)
              THEN [s EXCEPT !.rf_width = np_round8(Val(rf_width))] ELSE s
        cycle_length == CWODMR_cycle_length(s1)
        c1 == open(NewCall(h), F)
        c2 == PBInd(c1, int_ns(Q(cycle_length)))
        c3 == start_programming(c2, F)
        c4 == pb_on(c3, trigger_channel, 0, int_ns(Q(s1.trigger_width)))
        c5 == pb_make_clock(c4, clock_channel, int_ns(Q(s1.clock_period)))
        c6 == pb_on(c5, aom_channel, 0, int_ns(Q(cycle_length)))
        c7 == pb_on(c6, rf_channel, 0, int_ns(Q(s1.rf_width)))
        c8 == pb_program(c7, F)
        c9 == stop_programming(c8, F)
        c10 == close(c9, F)
    IN  IF e # NoException THEN Result(s, Raise(NewCall(h), e), None)
        ELSE Result(s1, c10, Some(np_round(<<cycle_length, s1.clock_period>>)))

(* PulseBlasterPulsedODMR *)

PulsedODMR_init(clock_period, trigger_width, rf_width, aom_width, aom_response_time, rf_response_time, pre_rf_pad, post_rf_pad, full_cycle_width, rf_pulse_justify) ==
    [NoAttributes EXCEPT !.cls = "PulsedODMR",
                         !.aom_width = np_round8(aom_width),
                         !.rf_width = np_round8(rf_width),
                         !.aom_response_time = np_round8(aom_response_time),
                         !.rf_response_time = np_round8(rf_response_time),
                         !.post_rf_pad = np_round8(post_rf_pad),
                         !.pre_rf_pad = np_round8(pre_rf_pad),
                         !.full_cycle_width = Q(np_round8(full_cycle_width)),
                         !.rf_pulse_justify = rf_pulse_justify,
                         !.clock_period = np_round8(clock_period),
                         !.trigger_width = np_round8(trigger_width)]

\* a check that accepts a total width equal to half the cycle (> for >=)
PulsedODMR_raise_for_pulse_width_strict(s, rf_width) ==
    LET requested_total_width ==
            s.aom_width + s.aom_response_time + s.pre_rf_pad + rf_width + s.post_rf_pad
    IN  IF QLt(QDivInt(s.full_cycle_width, 2), Q(requested_total_width))
        THEN "PulseTrainWidthError" ELSE NoException

PulsedODMR_raise_for_pulse_width(s, rf_width) ==
    LET requested_total_width ==
            s.aom_width + s.aom_response_time + s.pre_rf_pad + rf_width + s.post_rf_pad
    IN  IF QLe(QDivInt(s.full_cycle_width, 2), Q(requested_total_width))
        THEN "PulseTrainWidthError" ELSE NoException

Justifications == {"left", "center", "right", "start_center"}

\* a delay that ignores rf_pulse_justify and always places the pulse 'left'
PulsedODMR_delay_rf_channel_left(s) ==
    Q(s.aom_width + s.aom_response_time + s.pre_rf_pad - s.rf_response_time)

\* delay_rf_channel of the four justifications
PulsedODMR_delay_rf_channel(s) ==
    LET half_cycle_width == QDivInt(s.full_cycle_width, 2)
    IN  CASE s.rf_pulse_justify = "center" ->
                QSub(QSub(QAdd(Q(s.aom_width),
                               QDivInt(QSub(half_cycle_width, Q(s.aom_width)), 2)),
                          QDivInt(Q(s.rf_width), 2)),
                     Q(s.rf_response_time))
          [] s.rf_pulse_justify = "start_center" ->
                QSub(QAdd(Q(s.aom_width),
                          QDivInt(QSub(half_cycle_width, Q(s.aom_width)), 2)),
                     Q(s.rf_response_time))
          [] s.rf_pulse_justify = "left" ->
                Q(s.aom_width + s.aom_response_time + s.pre_rf_pad - s.rf_response_time)
          [] s.rf_pulse_justify = "right" ->
                QAdd(QSub(QSub(QSub(half_cycle_width, Q(s.post_rf_pad)), Q(s.rf_width)),
                          Q(s.rf_response_time)),
                     Q(s.aom_response_time))

PulsedODMR_program_pulser_state(s, rf_width, h, F) ==
    LET e  == IF Truthy(rf_width) THEN PulsedODMR_raise_for_pulse_width(s, Val(rf_width))
              ELSE PulsedODMR_raise_for_pulse_width(s, s.rf_width)
        s1 == IF Truthy(rf_width)
              THEN [s EXCEPT !.rf_width = np_round8(Val(rf_width))] ELSE s
        half_cycle_width == QDivInt(s1.full_cycle_width, 2)
        delay_rf_channel == PulsedODMR_delay_rf_channel(s1)
        c1 == open(NewCall(h), F)
        c2 == PBInd(c1, int_ns(s1.full_cycle_width))
        c3 == start_programming(c2, F)
        c4 == pb_on(c3, trigger_channel, 0, int_ns(Q(s1.trigger_width)))
        c5 == pb_make_clock(c4, clock_channel, int_ns(Q(s1.clock_period)))
        c6 == pb_on(c5, aom_channel, 0, int_ns(Q(s1.aom_width)))
        c7 == pb_on(c6, rf_channel, int_ns(delay_rf_channel), int_ns(Q(s1.rf_width)))
        c8 == pb_on(c7, aom_channel, int_ns(half_cycle_width), int_ns(Q(s1.aom_width)))
        c9 == pb_program(c8, F)
        c10 == stop_programming(c9, F)
        c11 == close(c10, F)
    IN  IF e # NoException THEN Result(s, Raise(NewCall(h), e), None)
        ELSE IF s1.rf_pulse_justify \notin Justifications
        THEN Result(s1, Raise(NewCall(h), "AssertionError"), None)
        ELSE Result(s1, c11,
                    Some(np_round(QDivInt(s1.full_cycle_width, s1.clock_period))))

(* PulseBlasterRamHahnDD *)

RamHahnDD_init(clock_period, trigger_width, rf_pi_pulse_width, aom_width, aom_response_time, rf_response_time, pre_rf_pad, post_rf_pad, free_precession_time, n_refocussing_pi_pulses) ==
    [NoAttributes EXCEPT !.cls = "RamHahnDD",
                         !.aom_width = np_round8(aom_width),
                         !.rf_pi_pulse_width = np_round8(rf_pi_pulse_width),
                         !.aom_response_time = np_round8(aom_response_time),
                         !.rf_response_time = np_round8(rf_response_time),
                         !.post_rf_pad = np_round8(post_rf_pad),
                         !.pre_rf_pad = np_round8(pre_rf_pad),
                         !.full_cycle_width = None,
                         !.free_precession_time = free_precession_time,
                         !.n_refocussing_pi_pulses = n_refocussing_pi_pulses,
                         !.pi_pulse_start_times = << >>,
                         !.left_pi_over_2_pulse_start = None,
                         !.right_pi_over_2_pulse_start = None,
                         !.clock_period = np_round8(clock_period),
                         !.trigger_width = np_round8(trigger_width)]

RamHahnDD_raise_for_pulse_width(s, free_precession_time, n_refocussing_pi_pulses) ==
    IF free_precession_time < n_refocussing_pi_pulses * s.rf_pi_pulse_width
    THEN "PulseTrainWidthError" ELSE NoException

\* a loop body that multiplies by the loop index i instead of i + 1
pi_pulse_start_time_from_zero(refocussing_sequence_start_time, delta_t_between_pi_pulses, half_pi, i) ==
    QSub(QAdd(refocussing_sequence_start_time, QMulInt(i, delta_t_between_pi_pulses)),
         half_pi)

\* start_time of the pi pulse appended in iteration i of
\* "for i in range(n_refocussing_pi_pulses)"
pi_pulse_start_time(refocussing_sequence_start_time, delta_t_between_pi_pulses, half_pi, i) ==
    QSub(QAdd(refocussing_sequence_start_time,
              QMulInt(i + 1, delta_t_between_pi_pulses)),
         half_pi)

\* the list of (rf_start_time, pulse_duration) and half_cycle_width, or the
\* exception raised
compute_rf_pulse_sequence(s, free_precession_time, n_refocussing_pi_pulses) ==
    LET e == RamHahnDD_raise_for_pulse_width(s, free_precession_time,
                                             n_refocussing_pi_pulses)
        half_pi == QDivInt(Q(s.rf_pi_pulse_width), 2)
        half_cycle_width ==
            QAdd(QAdd(QAdd(QAdd(Q(s.aom_width + s.aom_response_time + s.pre_rf_pad),
                                half_pi),
                           Q(free_precession_time)),
                      half_pi),
                 Q(s.post_rf_pad))
        left_pi_over_2_pulse_start ==
            Q(s.aom_width + s.aom_response_time + s.pre_rf_pad - s.rf_response_time)
        n_free_precession_segments == n_refocussing_pi_pulses + 1
        delta_t_between_pi_pulses ==
            QDivInt(Q(free_precession_time), n_free_precession_segments)
        refocussing_sequence_start_time == QAdd(left_pi_over_2_pulse_start, half_pi)
        pi_pulses ==
            [k \in 1..n_refocussing_pi_pulses |->
                <<pi_pulse_start_time(refocussing_sequence_start_time,
                                      delta_t_between_pi_pulses, half_pi, k - 1),
                  Q(s.rf_pi_pulse_width)>>]
        right_pi_over_2_pulse_start ==
            QAdd(QAdd(left_pi_over_2_pulse_start, Q(free_precession_time)), half_pi)
    IN  IF e # NoException
        THEN [exc |-> e, rf_start_and_duration |-> << >>, half_cycle_width |-> None]
        ELSE [exc |-> NoException,
              rf_start_and_duration |->
                  <<<<left_pi_over_2_pulse_start, half_pi>>>> \o pi_pulses
                      \o <<<<right_pi_over_2_pulse_start, half_pi>>>>,
              half_cycle_width |-> half_cycle_width]

\* a compute_rf_pulse_sequence that keeps the start times it computes in the
\* object's diagnostic attributes
compute_rf_pulse_sequence_self_storing(s, free_precession_time, n_refocussing_pi_pulses) ==
    LET seq == compute_rf_pulse_sequence(s, free_precession_time,
                                         n_refocussing_pi_pulses)
        pulses == seq.rf_start_and_duration
    IN  IF seq.exc # NoException THEN s
        ELSE [s EXCEPT !.left_pi_over_2_pulse_start = Some(pulses[1][1]),
                       !.right_pi_over_2_pulse_start = Some(pulses[Len(pulses)][1]),
                       !.pi_pulse_start_times =
                            [i \in 1..n_refocussing_pi_pulses |-> pulses[i + 1][1]]]

\* the object after compute_rf_pulse_sequence: the method assigns only
\* locals, no attribute of self
compute_rf_pulse_sequence_self(s, free_precession_time, n_refocussing_pi_pulses) == s

\* the except clause of program_pulser_state: restore prior values, re-raise.
\* A _prev_ local is bound only if its override was supplied; reading an
\* unbound one raises UnboundLocalError at that statement.
RamHahnDD_restore(s, s1, e, free_precession_time, n_refocussing_pi_pulses) ==
    IF IsNone(free_precession_time)
    THEN [self |-> s1, exc |-> "UnboundLocalError"]
    ELSE LET s2 == [s1 EXCEPT !.free_precession_time = s.free_precession_time]
         IN  IF IsNone(n_refocussing_pi_pulses)
             THEN [self |-> s2, exc |-> "UnboundLocalError"]
             ELSE [self |-> [s2 EXCEPT !.n_refocussing_pi_pulses =
                                            s.n_refocussing_pi_pulses],
                   exc |-> e]

\* for t, duration in self.rf_start_and_duration: pb.on(rf_channel, int(t*1e9), ...)
RECURSIVE pb_on_rf(_, _)
pb_on_rf(c, pulses) ==
    IF pulses = << >> THEN c
    ELSE pb_on_rf(pb_on(c, rf_channel, int_ns(Head(pulses)[1]), int_ns(Head(pulses)[2])),
                  Tail(pulses))

\* a store that extends the kept list instead of replacing it
RamHahnDD_store_sequence_appending(s, seq) ==
    [s EXCEPT !.rf_start_and_duration = @ \o seq.rf_start_and_duration,
              !.full_cycle_width = QMulInt(2, seq.half_cycle_width)]

\* self.rf_start_and_duration, half_cycle_width = ...; self.full_cycle_width = ...
RamHahnDD_store_sequence(s, seq) ==
    [s EXCEPT !.rf_start_and_duration = seq.rf_start_and_duration,
              !.full_cycle_width = QMulInt(2, seq.half_cycle_width)]

RamHahnDD_program_pulser_state(s, free_precession_time, n_refocussing_pi_pulses, h, F) ==
    LET sa == IF IsNone(free_precession_time) THEN s
              ELSE [s EXCEPT !.free_precession_time =
                                 np_round8(Val(free_precession_time))]
        s1 == IF IsNone(n_refocussing_pi_pulses) THEN sa
              ELSE [sa EXCEPT !.n_refocussing_pi_pulses = Val(n_refocussing_pi_pulses)]
        e  == RamHahnDD_raise_for_pulse_width(s1, s1.free_precession_time,
                                              s1.n_refocussing_pi_pulses)
        r  == RamHahnDD_restore(s, s1, e, free_precession_time, n_refocussing_pi_pulses)
        seq == compute_rf_pulse_sequence(s1, s1.free_precession_time,
                                         s1.n_refocussing_pi_pulses)
        half_cycle_width == seq.half_cycle_width
        s2 == compute_rf_pulse_sequence_self(s1, s1.free_precession_time,
                                             s1.n_refocussing_pi_pulses)
        s3 == RamHahnDD_store_sequence(s2, seq)
        c1 == open(NewCall(h), F)
        c2 == PBInd(c1, int_ns(s3.full_cycle_width))
        c3 == start_programming(c2, F)
        c4 == pb_on(c3, trigger_channel, 0, int_ns(Q(s3.trigger_width)))
        c5 == pb_make_clock(c4, clock_channel, int_ns(Q(s3.clock_period)))
        c6 == pb_on(c5, aom_channel, 0, int_ns(Q(s3.aom_width)))
        c7 == pb_on_rf(c6, s3.rf_start_and_duration)
        c8 == pb_on(c7, aom_channel, int_ns(half_cycle_width), int_ns(Q(s3.aom_width)))
        c9 == pb_program(c8, F)
        c10 == stop_programming(c9, F)
        c11 == close(c10, F)
    IN  IF e # NoException
        THEN Result(r.self, RaiseWhileHandling(NewCall(h), r.exc, e), None)
        ELSE Result(s3, c11, Some(np_round(QDivInt(s3.full_cycle_width, s3.clock_period))))

----------------------------------------------------------------------------
(* load_lib.py: paths, the loader's search directories, the registry *)

\* a path is the list of its components, a component is <<stem, suffix>>
Root == <<"/", "">>
Dir(d) == <<d, "">>
File(stem, suffix) == <<stem, suffix>>
\* the working directory of the process
cwd == <<Root, Dir("work")>>

\* os.path.isabs, os.path.abspath
isabs(path) == path # << >> /\ path[1] = Root
abspath(path) == IF isabs(path) THEN path ELSE cwd \o path
\* Path(path).joinpath(name): an absolute name replaces the path
joinpath(path, name) == IF isabs(name) THEN name ELSE path \o name
\* Path(...).name, the last component, and Path(...).stem
PathName(path) == <<path[Len(path)]>>
PathStem(path) == path[Len(path)][1]

\* the first occurrence of path is taken out of the list (list.remove)
RECURSIVE list_remove(_, _)
list_remove(list, path) ==
    IF list = << >> THEN << >>
    ELSE IF Head(list) = path THEN Tail(list)
    ELSE <<Head(list)>> \o list_remove(Tail(list), path)

InList(list, path) == \E i \in DOMAIN list : list[i] = path

RECURSIVE add_library_search_dirs(_, _)
add_library_search_dirs(loader_dirs, dirs) ==
    IF dirs = << >> THEN loader_dirs
    ELSE LET path == abspath(Head(dirs))
         IN  add_library_search_dirs(
                IF ~InList(loader_dirs, path) THEN Append(loader_dirs, path)
                ELSE loader_dirs,
                Tail(dirs))

RECURSIVE remove_library_search_dirs(_, _)
remove_library_search_dirs(loader_dirs, dirs) ==
    IF dirs = << >> THEN loader_dirs
    ELSE LET path == abspath(Head(dirs))
         IN  remove_library_search_dirs(
                IF InList(loader_dirs, path) THEN list_remove(loader_dirs, path)
                ELSE loader_dirs,
                Tail(dirs))

\* the paths argument of load_library: None, one str / Path, or a list
NoPaths == [type |-> "NoneType", items |-> << >>]
OnePath(path) == [type |-> "str", items |-> <<path>>]
PathList(list) == [type |-> "list", items |-> list]

\* load_library(name, paths, registry_name) when _library_loader(name) ends
\* with outcome ("loaded" or "ImportError"): the loader's list, the registry,
\* the exception and the returned Library (named by its registry name)
load_library(dirs, registry, name, paths, registry_name, outcome) ==
    LET paths1 == IF paths.type = "str" THEN paths.items
                  ELSE IF paths.type = "NoneType" THEN << >>
                  ELSE paths.items
        registry_name1 == IF IsNone(registry_name) THEN PathStem(name)
                          ELSE Val(registry_name)
        paths2 == [i \in DOMAIN paths1 |-> PathName(joinpath(paths1[i], name))]
        dirs1 == add_library_search_dirs(dirs, paths2)
        dirs2 == remove_library_search_dirs(dirs1, paths2)
    IN  IF registry_name1 \in registry
        THEN [other_dirs |-> dirs, library_registry |-> registry,
              exc |-> NoException, ret |-> Some(registry_name1), searched |-> dirs]
        ELSE IF outcome = "loaded"
        THEN [other_dirs |-> dirs2,
              library_registry |-> registry \cup {registry_name1},
              exc |-> NoException, ret |-> Some(registry_name1), searched |-> dirs1]
        ELSE [other_dirs |-> dirs2, library_registry |-> registry,
              exc |-> "QT3Error", ret |-> None, searched |-> dirs1]

\* no load_library call was made
NoLoader ==
    /\ other_dirs = << >>
    /\ library_registry = {}
    /\ loaded = [op |-> "", name |-> << >>, paths |-> NoPaths,
                 registry_name |-> None, exc |-> NoException, ret |-> None,
                 other_dirs_before |-> << >>, searched |-> << >>]

----------------------------------------------------------------------------
(* Two callers of one object *)

Callers == {"A", "B"}

\* no caller is inside a method and no driver call is recorded
NoThreads(serialized) ==
    [serialized |-> serialized,
     pending |-> [t \in Callers |-> << >>],
     done |-> [t \in Callers |-> FALSE],
     trace |-> << >>]

----------------------------------------------------------------------------
(* Constructor arguments and overrides supplied, in ns *)

HoldCycleWidths == {100, 104}
ClockPeriods == {40}
TriggerWidths == {10, 500}
CWRfWidths == {0, 50, 5000}
CWOverrides == {None, Some(0), Some(45), Some(49), Some(50), Some(55), Some(5000)}

AomWidths == {20}
AomResponseTimes == {10}
RfResponseTimes == {0, 50}
RfPads == {10}
PulsedFullCycleWidths == {130, 200, 260}
PulsedRfWidths == {0, 40}
PulsedJustifications == Justifications \cup {"centre"}
PulsedOverrides == {None, Some(0), Some(10), Some(40), Some(49), Some(50), Some(60)}

RfPiPulseWidths == {0, 10}
FreePrecessionTimes == {5, 40}
NRefocussingPiPulses == {0, 2}
FreePrecessionOverrides == {None, Some(0), Some(15), Some(20), Some(40)}
FreePrecessionArguments == {0, 15, 40}
NRefocussingOverrides == {None} \cup {Some(n) : n \in 0..MaxN}

----------------------------------------------------------------------------
(* The state machine *)

Init ==
    /\ self \in {HoldAOM_init(w) : w \in HoldCycleWidths}
            \cup {CWODMR_init(w, p, t) :
                    w \in CWRfWidths, p \in ClockPeriods, t \in TriggerWidths}
            \cup {PulsedODMR_init(p, t, w, a, ar, rr, pad, pad, fc, j) :
                    p \in ClockPeriods, t \in TriggerWidths, w \in PulsedRfWidths,
                    a \in AomWidths, ar \in AomResponseTimes, rr \in RfResponseTimes,
                    pad \in RfPads, fc \in PulsedFullCycleWidths,
                    j \in PulsedJustifications}
            \cup {RamHahnDD_init(p, t, w, a, ar, rr, pad, pad, fpt, n) :
                    p \in ClockPeriods, t \in TriggerWidths, w \in RfPiPulseWidths,
                    a \in AomWidths, ar \in AomResponseTimes, rr \in RfResponseTimes,
                    pad \in RfPads, fpt \in FreePrecessionTimes,
                    n \in NRefocussingPiPulses}
    /\ board_open = FALSE
    /\ calls = << >>
    /\ on_time = None
    /\ last = [op |-> "__init__", args |-> << >>, exc |-> NoException,
               context |-> NoException, message |-> << >>, ret |-> None,
               consecutive |-> FALSE]
    /\ prev = self
    /\ threads = NoThreads(TRUE)
    /\ NoLoader

\* no method call is under observation: the next call may be made
Idle == last.op \in {"__init__", "idle"}

\* the last call was a program_pulser_state() without overrides that returned
\* normally: the caller may repeat it at once, while its record is kept
Repeatable ==
    /\ last.op = "program_pulser_state"
    /\ \A i \in DOMAIN last.args : IsNone(last.args[i])
    /\ last.exc = NoException

\* a program_pulser_state call with these arguments may be made now
CallAllowed(args) == Idle \/ (Repeatable /\ \A i \in DOMAIN args : IsNone(args[i]))

Finish(op, args, r) ==
    /\ self' = r.self
    /\ board_open' = r.c.handle
    /\ calls' = r.c.calls
    /\ on_time' = r.c.on_time
    /\ last' = [op |-> op, args |-> args, exc |-> r.c.exc,
                context |-> r.c.context, message |-> r.c.message,
                ret |-> r.ret, consecutive |-> ~Idle]
    /\ prev' = self
    /\ UNCHANGED <<threads, loader_vars>>

Start ==
    /\ Idle
    /\ \E F \in FaultSets("start") :
        Finish("start", << >>, Result(self, start(NewCall(board_open), F), None))

Stop ==
    /\ Idle
    /\ \E F \in FaultSets("stop") :
        Finish("stop", << >>, Result(self, stop(NewCall(board_open), F), None))

Reset ==
    /\ Idle
    /\ \E F \in FaultSets("reset") :
        Finish("reset", << >>, Result(self, reset(NewCall(board_open), F), None))

ProgramHoldAOM ==
    /\ self.cls = "HoldAOM"
    /\ CallAllowed(<< >>)
    /\ \E F \in FaultSets("program_pulser_state") :
        Finish("program_pulser_state", << >>,
               HoldAOM_program_pulser_state(self, board_open, F))

ProgramCWODMR ==
    /\ self.cls = "CWODMR"
    /\ \E rf_width \in CWOverrides, F \in FaultSets("program_pulser_state") :
        /\ CallAllowed(<<rf_width>>)
        /\ Finish("program_pulser_state", <<rf_width>>,
               CWODMR_program_pulser_state(self, rf_width, board_open, F))

ProgramPulsedODMR ==
    /\ self.cls = "PulsedODMR"
    /\ \E rf_width \in PulsedOverrides, F \in FaultSets("program_pulser_state") :
        /\ CallAllowed(<<rf_width>>)
        /\ Finish("program_pulser_state", <<rf_width>>,
               PulsedODMR_program_pulser_state(self, rf_width, board_open, F))

ProgramRamHahnDD ==
    /\ self.cls = "RamHahnDD"
    /\ \E free_precession_time \in FreePrecessionOverrides,
          n_refocussing_pi_pulses \in NRefocussingOverrides,
          F \in FaultSets("program_pulser_state") :
        /\ CallAllowed(<<free_precession_time, n_refocussing_pi_pulses>>)
        /\ Finish("program_pulser_state",
                  <<free_precession_time, n_refocussing_pi_pulses>>,
               RamHahnDD_program_pulser_state(self, free_precession_time,
                                              n_refocussing_pi_pulses, board_open, F))

\* compute_rf_pulse_sequence called directly; the caller may call it again at
\* once with the same arguments
ComputeRfPulseSequence ==
    /\ self.cls = "RamHahnDD"
    /\ \E free_precession_time \in FreePrecessionArguments,
          n_refocussing_pi_pulses \in 0..MaxN :
        LET args == <<free_precession_time, n_refocussing_pi_pulses>>
            seq == compute_rf_pulse_sequence(self, free_precession_time,
                                             n_refocussing_pi_pulses)
            s1 == compute_rf_pulse_sequence_self(self, free_precession_time,
                                                 n_refocussing_pi_pulses)
            c == NewCall(board_open)
        IN  /\ Idle \/ (last.op = "compute_rf_pulse_sequence" /\ last.args = args)
            /\ Finish("compute_rf_pulse_sequence", args,
                      IF seq.exc # NoException
                      THEN Result(s1, Raise(c, seq.exc), None)
                      ELSE Result(s1, c, Some(<<seq.rf_start_and_duration,
                                                seq.half_cycle_width>>)))

\* the caller has taken the result or the exception of the last call; the
\* object and the board stay as that call left them
Return ==
    /\ ~Idle
    /\ calls' = << >>
    /\ on_time' = None
    /\ last' = [op |-> "idle", args |-> << >>, exc |-> NoException,
                context |-> NoException, message |-> << >>, ret |-> None,
               consecutive |-> FALSE]
    /\ prev' = self
    /\ UNCHANGED <<self, board_open, threads, loader_vars>>

Next ==
    \/ Return
    \/ Start
    \/ Stop
    \/ Reset
    \/ ProgramHoldAOM
    \/ ProgramCWODMR
    \/ ProgramPulsedODMR
    \/ ProgramRamHahnDD
    \/ ComputeRfPulseSequence

Spec == Init /\ [][Next]_vars

----------------------------------------------------------------------------
(* Two callers, one object: the methods take no lock, so the driver calls of
   two running methods interleave freely unless the callers serialize them.
   Caller A uses start / stop / reset, caller B program_pulser_state. *)

\* at most one driver function fails during a method call
SingleFaults(op) == {{}} \cup {{fn} : fn \in StatusFns(op)}

InitThreads ==
    /\ self = HoldAOM_init(100)
    /\ board_open = FALSE
    /\ calls = << >>
    /\ on_time = None
    /\ last = [op |-> "__init__", args |-> << >>, exc |-> NoException,
               context |-> NoException, message |-> << >>, ret |-> None,
               consecutive |-> FALSE]
    /\ prev = self
    /\ threads \in {NoThreads(serialized) : serialized \in BOOLEAN}
    /\ NoLoader

\* caller t may enter a method: it has made no call yet, and when the callers
\* serialize their calls the other caller is not inside one
MayCall(t) ==
    /\ ~threads.done[t]
    /\ threads.pending[t] = << >>
    /\ threads.serialized => \A u \in Callers : threads.pending[u] = << >>

\* caller t enters a method that will issue these driver calls
Enter(t, driver_calls) ==
    /\ threads' = [threads EXCEPT !.pending[t] = driver_calls, !.done[t] = TRUE]
    /\ UNCHANGED <<self, board_open, calls, on_time, last, prev, loader_vars>>

CallPlayback ==
    /\ MayCall("A")
    /\ \E op \in {"start", "stop", "reset"} : \E F \in SingleFaults(op) :
        Enter("A", (CASE op = "start" -> start(NewCall(FALSE), F)
                      [] op = "stop" -> stop(NewCall(FALSE), F)
                      [] op = "reset" -> reset(NewCall(FALSE), F)).calls)

CallProgram ==
    /\ MayCall("B")
    /\ \E F \in SingleFaults("program_pulser_state") :
        Enter("B", HoldAOM_program_pulser_state(self, FALSE, F).c.calls)

\* the method some caller is inside issues its next driver call
DriverStep ==
    \E t \in Callers :
        /\ threads.pending[t] # << >>
        /\ LET call == Head(threads.pending[t])
           IN  /\ threads' = [threads EXCEPT
                                !.pending[t] = Tail(@),
                                !.trace = Append(@, [caller |-> t, fn |-> call.fn,
                                                     ret |-> call.ret])]
               /\ board_open' =
                    IF call.ret # 0 THEN board_open
                    ELSE IF call.fn = "pb_init" THEN TRUE
                    ELSE IF call.fn = "pb_close" THEN FALSE
                    ELSE board_open
        /\ UNCHANGED <<self, calls, on_time, last, prev, loader_vars>>

\* both callers are out of their methods: the record of their calls is dropped
\* and they may call again
Forget ==
    /\ \A t \in Callers : threads.done[t] /\ threads.pending[t] = << >>
    /\ threads' = NoThreads(threads.serialized)
    /\ UNCHANGED <<self, board_open, calls, on_time, last, prev, loader_vars>>

NextThreads ==
    \/ CallPlayback
    \/ CallProgram
    \/ DriverStep
    \/ Forget

SpecThreads == InitThreads /\ [][NextThreads]_vars

----------------------------------------------------------------------------
(* load_library calls *)

LibraryNames ==
    {<<File("libfoo", ".so")>>, <<Root, Dir("opt"), File("atspectrograph", ".dll")>>}
SearchPaths ==
    {<<Root, Dir("work"), File("libfoo", ".so")>>, <<Dir("vendor")>>, <<Root, Dir("opt")>>}
PathsArguments ==
    {NoPaths} \cup {OnePath(path) : path \in SearchPaths}
        \cup {PathList(<<path, other>>) : path \in SearchPaths, other \in SearchPaths}
RegistryNames == {None, Some("libfoo"), Some("andor")}
\* what the loader's list holds before the first call
InitialOtherDirs ==
    {<< >>, <<<<Root, Dir("opt")>>>>,
     <<<<Root, Dir("work"), File("libfoo", ".so")>>>>,
     <<<<Root, Dir("opt")>>, <<Root, Dir("work"), File("libfoo", ".so")>>>>}

InitLoader ==
    /\ self = HoldAOM_init(100)
    /\ board_open = FALSE
    /\ calls = << >>
    /\ on_time = None
    /\ last = [op |-> "__init__", args |-> << >>, exc |-> NoException,
               context |-> NoException, message |-> << >>, ret |-> None,
               consecutive |-> FALSE]
    /\ prev = self
    /\ threads = NoThreads(TRUE)
    /\ other_dirs \in InitialOtherDirs
    /\ library_registry = {}
    /\ loaded = [op |-> "", name |-> << >>, paths |-> NoPaths,
                 registry_name |-> None, exc |-> NoException, ret |-> None,
                 other_dirs_before |-> << >>, searched |-> << >>]

LoadLibrary ==
    /\ \E name \in LibraryNames, paths \in PathsArguments,
          registry_name \in RegistryNames, outcome \in {"loaded", "ImportError"} :
        LET r == load_library(other_dirs, library_registry, name, paths,
                              registry_name, outcome)
        IN  /\ other_dirs' = r.other_dirs
            /\ library_registry' = r.library_registry
            /\ loaded' = [op |-> "load_library", name |-> name, paths |-> paths,
                          registry_name |-> registry_name, exc |-> r.exc,
                          ret |-> r.ret, other_dirs_before |-> other_dirs,
                          searched |-> r.searched]
    /\ UNCHANGED pulser_vars

NextLoader == LoadLibrary

SpecLoader == InitLoader /\ [][NextLoader]_vars

----------------------------------------------------------------------------
(* Observations on the last method call *)

ProgramCall == last.op = "program_pulser_state"
PlaybackCall == last.op \in {"start", "stop", "reset"}

Indices(fn) == {i \in DOMAIN calls : calls[i].fn = fn}
Called(fn) == Indices(fn) # {}

\* pb_init returned 0 during the call: the call opened the board
OpenedBoard == \E i \in Indices("pb_init") : calls[i].ret = 0
\* ... and pb_close was issued after that
ClosedAfterOpening ==
    \E i \in Indices("pb_init"), j \in Indices("pb_close") : calls[i].ret = 0 /\ i < j

\* every driver call of the method was issued and returned 0
AllDriverCallsSucceeded ==
    /\ Called("pb_close")
    /\ \A i \in DOMAIN calls : calls[i].ret = 0

\* the values the call validates, read from its arguments and the object before it
CheckedRfWidth == IF Truthy(last.args[1]) THEN Val(last.args[1]) ELSE prev.rf_width
CheckedFreePrecessionTime ==
    IF IsNone(last.args[1]) THEN prev.free_precession_time
    ELSE np_round8(Val(last.args[1]))
CheckedNRefocussingPiPulses ==
    IF IsNone(last.args[2]) THEN prev.n_refocussing_pi_pulses ELSE Val(last.args[2])

\* the feasibility constraint of the variant is violated by the checked values
Infeasible ==
    CASE prev.cls = "CWODMR" -> CheckedRfWidth < 50
      [] prev.cls = "PulsedODMR" ->
            2 * (prev.aom_width + prev.aom_response_time + prev.pre_rf_pad
                 + CheckedRfWidth + prev.post_rf_pad) >= prev.full_cycle_width[1]
      [] prev.cls = "RamHahnDD" ->
            CheckedFreePrecessionTime
                < CheckedNRefocussingPiPulses * prev.rf_pi_pulse_width
      [] OTHER -> FALSE

----------------------------------------------------------------------------
(* Claims *)

\* C1 (as stated; violated): when PulseBlasterRamHahnDD.program_pulser_state
\* is called with values that fail the feasibility check, whichever overrides
\* were supplied, free_precession_time and n_refocussing_pi_pulses are
\* afterwards what they were before the call.
C1_RollbackRestoresBoth ==
    (ProgramCall /\ prev.cls = "RamHahnDD" /\ Infeasible)
        => /\ self.free_precession_time = prev.free_precession_time
           /\ self.n_refocussing_pi_pulses = prev.n_refocussing_pi_pulses

\* C2: in the CW-ODMR, pulsed-ODMR and Ramsey/Hahn/DD variants, a
\* program_pulser_state call whose checked values violate the feasibility
\* constraint raises and issues no driver call and builds no PBInd program.
C2_NoDriverCallWhenInfeasible ==
    (ProgramCall /\ Infeasible)
        => /\ calls = << >>
           /\ on_time = None
           /\ last.exc # NoException

C2_Witness ==
    /\ ProgramCall /\ Infeasible
    /\ prev.cls = "CWODMR"
    /\ last.args = <<Some(49)>>
    /\ last.exc = "PulseTrainWidthError"
    /\ calls = << >>

\* C3 (as stated; violated): whenever start(), stop() or reset() has
\* finished, normally or by raising, a board it opened (pb_init returned 0)
\* has been closed again by a later pb_close of the same call.
C3_PlaybackClosesBoard ==
    (PlaybackCall /\ OpenedBoard) => ClosedAfterOpening

\* C4 (as stated; violated): whenever program_pulser_state has finished,
\* normally or by raising, a board it opened has been closed again by a later
\* pb_close of the same call.
C4_ProgramClosesBoard ==
    (ProgramCall /\ OpenedBoard) => ClosedAfterOpening

\* C5: in every method call that reaches open(): if pb_init returns nonzero,
\* pb_close is issued exactly once, right after pb_init, nothing follows it,
\* pb_core_clock is never issued and, when that pb_close returns 0, the
\* exception raised is PulseBlasterInitError; if pb_init returns 0, the next
\* driver call is pb_core_clock(100 MHz), not pb_close.
C5_OpenOnInitFailureAndSuccess ==
    \A i \in Indices("pb_init") :
        IF calls[i].ret # 0
        THEN /\ Cardinality(Indices("pb_close")) = 1
             /\ Len(calls) = i + 1
             /\ calls[i + 1].fn = "pb_close"
             /\ ~Called("pb_core_clock")
             /\ (calls[i + 1].ret = 0 => last.exc = "PulseBlasterInitError")
        ELSE /\ Len(calls) > i
             /\ calls[i + 1] = DriverCall("pb_core_clock", <<100>>, 0)

C5_Witness ==
    /\ \E i \in Indices("pb_init") : calls[i].ret # 0
    /\ \E j \in Indices("pb_close") : calls[j].ret = 0
    /\ last.exc = "PulseBlasterInitError"

\* C6 (as stated; violated): the RF intervals compute_rf_pulse_sequence
\* returned for feasible values (kept in rf_start_and_duration) do not
\* overlap: each ends no later than the next one starts.
C6_RfIntervalsDisjoint ==
    self.cls = "RamHahnDD" =>
        \A i \in 1..(Len(self.rf_start_and_duration) - 1) :
            QLe(QAdd(self.rf_start_and_duration[i][1], self.rf_start_and_duration[i][2]),
                self.rf_start_and_duration[i + 1][1])

\* C7 (as stated; violated): every interval handed to PBInd.on by
\* program_pulser_state ends within the on_time the PBInd was built with.
C7_IntervalsEndWithinCycle ==
    ProgramCall =>
        \A i \in Indices("on") : calls[i].args[2] + calls[i].args[3] <= Val(on_time)

\* C8 (as stated; violated): in the pulsed-ODMR and Ramsey/Hahn/DD variants
\* every RF interval handed to PBInd.on starts at an offset >= 0 and has a
\* duration > 0.
C8_RfIntervalsWellFormed ==
    (ProgramCall /\ self.cls \in {"PulsedODMR", "RamHahnDD"}) =>
        \A i \in Indices("on") :
            calls[i].args[1] = rf_channel
                => calls[i].args[2] >= 0 /\ calls[i].args[3] > 0

\* C9 (as stated; violated): a program_pulser_state call of any of the four
\* variants in which every driver call succeeded returns
\* round(cycle width / clock period) for the cycle it uploaded.
C9_ReturnsCycleSampleCount ==
    (ProgramCall /\ AllDriverCallsSucceeded) =>
        /\ last.exc = NoException
        /\ last.ret =
             Some(np_round(
                CASE self.cls = "HoldAOM" -> <<self.cycle_width, self.clock_period>>
                  [] self.cls = "CWODMR" -> <<2 * self.rf_width, self.clock_period>>
                  [] OTHER -> QDivInt(self.full_cycle_width, self.clock_period)))

\* C10 (as stated; violated): a PulseBlasterCWODMR.program_pulser_state call
\* given an rf_width w raises PulseTrainWidthError and leaves rf_width as it
\* was when w < 50 ns, and passes validation and stores w (rounded to 10 ns)
\* when w >= 50 ns.
C10_CWOverrideDecides ==
    (ProgramCall /\ prev.cls = "CWODMR" /\ ~IsNone(last.args[1])) =>
        IF Val(last.args[1]) < 50
        THEN last.exc = "PulseTrainWidthError" /\ self.rf_width = prev.rf_width
        ELSE last.exc # "PulseTrainWidthError"
                /\ self.rf_width = np_round8(Val(last.args[1]))

\* C11: a PulseBlasterPulsedODMR.program_pulser_state call raises
\* PulseTrainWidthError exactly when aom_width + aom_response_time +
\* pre_rf_pad + rf_width + post_rf_pad >= full_cycle_width / 2 for the
\* rf_width it checks: a total equal to half the cycle raises, a total one
\* nanosecond below it does not.
C11_PulsedValidationBoundary ==
    (ProgramCall /\ prev.cls = "PulsedODMR") =>
        (last.exc = "PulseTrainWidthError"
            <=> 2 * (prev.aom_width + prev.aom_response_time + prev.pre_rf_pad
                     + CheckedRfWidth + prev.post_rf_pad) >= prev.full_cycle_width[1])

\* the total equals half the cycle (20 + 10 + 10 + 50 + 10 = 200 / 2): raised
C11_Witness ==
    /\ ProgramCall /\ prev.cls = "PulsedODMR"
    /\ prev.full_cycle_width = Q(200)
    /\ last.args = <<Some(50)>>
    /\ prev.aom_width + prev.aom_response_time + prev.pre_rf_pad + 50
            + prev.post_rf_pad = 100
    /\ last.exc = "PulseTrainWidthError"

\* C12 (as stated; violated): a PulseBlasterRamHahnDD.program_pulser_state
\* call whose checked values are infeasible, with one override, both or
\* none, ends with PulseTrainWidthError reaching the caller, never with
\* another error raised by the rollback.
C12_InfeasibleRaisesWidthError ==
    (ProgramCall /\ prev.cls = "RamHahnDD" /\ Infeasible)
        => last.exc = "PulseTrainWidthError"

\* the driver functions whose returned status the session has to check
StatusReturning ==
    {"pb_init", "pb_start_programming", "pb_stop_programming", "program",
     "pb_start", "pb_stop", "pb_reset", "pb_close"}

\* C13 (as stated; violated): in every method call each status-returning
\* driver function (init, start_programming, stop_programming, commit, start,
\* stop, reset, close) is issued at most once, and when one of them returned
\* a nonzero status the method raised instead of continuing: it is the last
\* driver call of the method, or only the close that open() attempts after a
\* failed init follows it.
C13_StatusCheckedNoRetry ==
    /\ \A fn \in StatusReturning : Cardinality(Indices(fn)) <= 1
    /\ \A i \in DOMAIN calls :
          (calls[i].fn \in StatusReturning /\ calls[i].ret # 0)
              => /\ last.exc # NoException
                 /\ \/ i = Len(calls)
                    \/ /\ calls[i].fn = "pb_init"
                       /\ i + 1 = Len(calls)
                       /\ calls[i + 1].fn = "pb_close"

\* C14 (as stated; violated): when pb_init fails in open() and the pb_close
\* it then attempts fails too, the exception reaching the caller still
\* carries the initialization failure: it is PulseBlasterInitError, or
\* PulseBlasterInitError is its context.
C14_InitErrorNotMasked ==
    ((\E i \in Indices("pb_init") : calls[i].ret # 0)
        /\ (\E j \in Indices("pb_close") : calls[j].ret # 0))
        => \/ last.exc = "PulseBlasterInitError"
           \/ last.context = "PulseBlasterInitError"

\* what a method call uploaded: its driver and PBInd calls without the statuses
Uploaded(cs) == [i \in DOMAIN cs |-> <<cs[i].fn, cs[i].args>>]

\* C15: in every variant, when a program_pulser_state() without overrides has
\* returned normally and is called again at once, without overrides, and
\* returns normally again, the second call uploads what the first did (the
\* same intervals and clock period to PBInd, built with the same cycle width),
\* returns the same value and leaves every attribute of the object as it was.
C15_RepeatedProgramIsIdempotent ==
    [][(last'.op = "program_pulser_state" /\ last'.consecutive
            /\ last'.exc = NoException)
        => /\ Uploaded(calls') = Uploaded(calls)
           /\ on_time' = on_time
           /\ last'.ret = last.ret
           /\ self' = self]_vars

\* a second consecutive call has returned normally after uploading a cycle
C15_Witness ==
    /\ ProgramCall /\ last.consecutive
    /\ last.exc = NoException
    /\ self.cls = "RamHahnDD"
    /\ self.n_refocussing_pi_pulses = 2
    /\ Called("program")
    /\ prev = self

\* the pb.on calls of the last method call on channel ch, as <<start, duration>>
RECURSIVE OnCalls(_, _)
OnCalls(cs, ch) ==
    IF cs = << >> THEN << >>
    ELSE (IF Head(cs).fn = "on" /\ Head(cs).args[1] = ch
          THEN <<<<Head(cs).args[2], Head(cs).args[3]>>>> ELSE << >>)
         \o OnCalls(Tail(cs), ch)

\* C16: a PulseBlasterPulsedODMR.program_pulser_state call that uploads its
\* cycle puts the one RF pulse at int(delay_rf_channel * 1e9), where, with
\* half = full_cycle_width / 2 and the stored widths,
\*   center:       aom_width + (half - aom_width)/2 - rf_width/2 - rf_response_time
\*   start_center: aom_width + (half - aom_width)/2 - rf_response_time
\*   left:         aom_width + aom_response_time + pre_rf_pad - rf_response_time
\*   right:        half - post_rf_pad - rf_width - rf_response_time + aom_response_time
\* (each written below over the common denominator), and switches the AOM on
\* at [0, aom_width) and [half, half + aom_width).
C16_PulsedDelayAndAom ==
    (ProgramCall /\ self.cls = "PulsedODMR" /\ Called("program")) =>
        LET a == self.aom_width
            f == self.full_cycle_width[1]
            w == self.rf_width
            rr == self.rf_response_time
            ar == self.aom_response_time
            j == self.rf_pulse_justify
            delay ==
                CASE j = "center" -> <<2 * a + f - 2 * w - 4 * rr, 4>>
                  [] j = "start_center" -> <<2 * a + f - 4 * rr, 4>>
                  [] j = "left" -> <<a + ar + self.pre_rf_pad - rr, 1>>
                  [] j = "right" -> <<f - 2 * self.post_rf_pad - 2 * w - 2 * rr + 2 * ar, 2>>
        IN  /\ j \in {"center", "start_center", "left", "right"}
            /\ self.full_cycle_width[2] = 1
            /\ OnCalls(calls, rf_channel) = <<<<int_ns(delay), w>>>>
            /\ OnCalls(calls, aom_channel) = <<<<0, a>>, <<f \div 2, a>>>>

\* a cycle was uploaded with the RF pulse justified 'right':
\* 100 - 10 - 40 - 0 + 10 = 60
C16_Witness ==
    /\ ProgramCall /\ self.cls = "PulsedODMR" /\ AllDriverCallsSucceeded
    /\ self.rf_pulse_justify = "right"
    /\ self.full_cycle_width = Q(200) /\ self.rf_width = 40
    /\ self.rf_response_time = 0
    /\ OnCalls(calls, rf_channel) = <<<<60, 40>>>>

\* C17: a PulseBlasterRamHahnDD.program_pulser_state call that passes
\* validation derives, with w = rf_pi_pulse_width, fpt = free_precession_time,
\* n = n_refocussing_pi_pulses and t0 = aom_width + aom_response_time +
\* pre_rf_pad - rf_response_time: half_cycle = aom_width + aom_response_time +
\* pre_rf_pad + w + fpt + post_rf_pad and a cycle of 2 * half_cycle; a first
\* pulse of width w/2 at t0; for i = 1..n a pulse of width w at
\* t0 + w/2 + i*fpt/(n+1) - w/2 (= t0 + i*fpt/(n+1)); a closing pulse of width
\* w/2 at t0 + fpt + w/2.  It builds PBInd with that cycle, and when it
\* uploads, the RF pulses are these and the AOM is on at [0, aom_width) and
\* [half_cycle, half_cycle + aom_width).
C17_RamHahnDDPlan ==
    (ProgramCall /\ prev.cls = "RamHahnDD" /\ ~Infeasible) =>
        LET w == self.rf_pi_pulse_width
            fpt == self.free_precession_time
            n == self.n_refocussing_pi_pulses
            t0 == self.aom_width + self.aom_response_time + self.pre_rf_pad
                    - self.rf_response_time
            half_cycle == self.aom_width + self.aom_response_time + self.pre_rf_pad
                            + w + fpt + self.post_rf_pad
            seq == self.rf_start_and_duration
        IN  /\ last.exc \notin {"PulseTrainWidthError", "UnboundLocalError"}
            /\ QEq(self.full_cycle_width, Q(2 * half_cycle))
            /\ Len(seq) = n + 2
            /\ QEq(seq[1][1], Q(t0)) /\ QEq(seq[1][2], <<w, 2>>)
            /\ \A i \in 1..n :
                    /\ QEq(seq[i + 1][1], <<(n + 1) * t0 + i * fpt, n + 1>>)
                    /\ QEq(seq[i + 1][2], Q(w))
            /\ QEq(seq[n + 2][1], <<2 * t0 + 2 * fpt + w, 2>>)
            /\ QEq(seq[n + 2][2], <<w, 2>>)
            /\ on_time # None => on_time = Some(2 * half_cycle)
            /\ Called("program") =>
                  /\ OnCalls(calls, aom_channel)
                        = <<<<0, self.aom_width>>, <<half_cycle, self.aom_width>>>>
                  /\ OnCalls(calls, rf_channel)
                        = [i \in 1..(n + 2) |-> <<int_ns(seq[i][1]), int_ns(seq[i][2])>>]

\* two refocussing pulses in a free precession of 40 ns were uploaded:
\* t0 = 40, pulses at 40, 40 + 40/3, 40 + 80/3 and 40 + 40 + 5
C17_Witness ==
    /\ ProgramCall /\ self.cls = "RamHahnDD" /\ AllDriverCallsSucceeded
    /\ self.n_refocussing_pi_pulses = 2 /\ self.free_precession_time = 40
    /\ self.rf_pi_pulse_width = 10 /\ self.rf_response_time = 0
    /\ OnCalls(calls, rf_channel) = <<<<40, 5>>, <<53, 10>>, <<66, 10>>, <<85, 5>>>>
    /\ on_time = Some(2 * (20 + 10 + 10 + 10 + 40 + 10))

\* C18 (as stated; violated): for every n_refocussing_pi_pulses n >= 0 that
\* passes validation, the list compute_rf_pulse_sequence returned (kept in
\* rf_start_and_duration) has exactly n + 2 RF intervals and their start
\* times are strictly increasing.
C18_PulseCountAndOrder ==
    (ProgramCall /\ prev.cls = "RamHahnDD" /\ ~Infeasible) =>
        /\ Len(self.rf_start_and_duration) = self.n_refocussing_pi_pulses + 2
        /\ \A i \in 1..(Len(self.rf_start_and_duration) - 1) :
              QLt(self.rf_start_and_duration[i][1], self.rf_start_and_duration[i + 1][1])

\* C19: a PulseBlasterCWODMR.program_pulser_state call that passes validation
\* builds PBInd with cycle_length = 2 * rf_width for the rf_width it holds,
\* and when it uploads, the AOM is on at [0, cycle_length), the RF at
\* [0, rf_width) and the trigger at [0, trigger_width).
C19_CWPlan ==
    (ProgramCall /\ prev.cls = "CWODMR" /\ ~Infeasible) =>
        /\ last.exc # "PulseTrainWidthError"
        /\ on_time # None => on_time = Some(2 * self.rf_width)
        /\ Called("program") =>
              /\ OnCalls(calls, aom_channel) = <<<<0, 2 * self.rf_width>>>>
              /\ OnCalls(calls, rf_channel) = <<<<0, self.rf_width>>>>
              /\ OnCalls(calls, trigger_channel) = <<<<0, self.trigger_width>>>>

\* rf_width 5000 ns: cycle 10000 ns, RF (0, 5000), AOM (0, 10000)
C19_Witness ==
    /\ ProgramCall /\ self.cls = "CWODMR" /\ AllDriverCallsSucceeded
    /\ last.args = <<Some(5000)>>
    /\ self.rf_width = 5000
    /\ on_time = Some(10000)
    /\ OnCalls(calls, rf_channel) = <<<<0, 5000>>>>
    /\ OnCalls(calls, aom_channel) = <<<<0, 10000>>>>

\* the attributes of the object that hold a time
TimeAttributes ==
    CASE self.cls = "HoldAOM" -> {"cycle_width"}
      [] self.cls = "CWODMR" -> {"rf_width", "clock_period", "trigger_width"}
      [] self.cls = "PulsedODMR" ->
            {"rf_width", "clock_period", "trigger_width", "aom_width",
             "aom_response_time", "rf_response_time", "pre_rf_pad", "post_rf_pad"}
      [] self.cls = "RamHahnDD" ->
            {"rf_pi_pulse_width", "clock_period", "trigger_width", "aom_width",
             "aom_response_time", "rf_response_time", "pre_rf_pad", "post_rf_pad",
             "free_precession_time"}

\* C20 (as stated; violated): in every reachable state of every variant each
\* stored time-valued parameter, PulseBlasterRamHahnDD's free_precession_time
\* and PulseBlasterPulsedODMR's full_cycle_width included, is a whole
\* multiple of 10 ns.
C20_StoredTimesOnGrid ==
    /\ \A f \in TimeAttributes : self[f] % 10 = 0
    /\ self.cls = "PulsedODMR" =>
          self.full_cycle_width[2] = 1 /\ self.full_cycle_width[1] % 10 = 0

\* C21 (as stated; violated): when pb_start_programming or
\* pb_stop_programming returns a nonzero status, the PulseBlasterError raised
\* carries the numeric status and the driver's diagnostic text, as the errors
\* for pb_start, pb_stop, pb_reset and pb_close do.
C21_ProgrammingErrorCarriesCode ==
    \A i \in DOMAIN calls :
        (calls[i].fn \in {"pb_start_programming", "pb_stop_programming",
                          "pb_start", "pb_stop", "pb_reset", "pb_close"}
            /\ calls[i].ret # 0)
            => /\ last.exc = "PulseBlasterError"
               /\ last.message = <<calls[i].ret, pb_get_error>>

\* the names of the driver and PBInd functions called, in order
CallNames == [i \in DOMAIN calls |-> calls[i].fn]

\* C22: in every program_pulser_state call (of any variant) that passes
\* validation and in which every driver call returns 0, the calls are, in
\* this order and each once: pb_select_board, pb_init, pb_core_clock,
\* pb_start_programming, then the pulse definitions (pb.on / pb.make_clock,
\* at least one), then one pb.program([], inf), pb_stop_programming,
\* pb_close; so no pulse definition or commit lies outside the programming
\* bracket, and pb_start is not called.
C22_UploadCallOrder ==
    (ProgramCall /\ AllDriverCallsSucceeded) =>
        LET n == Len(calls)
        IN  /\ n >= 8
            /\ SubSeq(CallNames, 1, 4)
                  = <<"pb_select_board", "pb_init", "pb_core_clock",
                      "pb_start_programming">>
            /\ \A i \in 5..(n - 3) : calls[i].fn \in {"on", "make_clock"}
            /\ SubSeq(CallNames, n - 2, n)
                  = <<"program", "pb_stop_programming", "pb_close">>
            /\ calls[n - 2].args = <<<< >>, "inf">>
            /\ ~Called("pb_start")

\* a Ramsey/Hahn/DD cycle with two refocussing pulses was uploaded: six pb.on
\* and one pb.make_clock inside the bracket
C22_Witness ==
    /\ ProgramCall /\ AllDriverCallsSucceeded
    /\ self.cls = "RamHahnDD" /\ self.n_refocussing_pi_pulses = 2
    /\ Len(calls) = 15
    /\ calls[13].fn = "program"
    /\ last.exc = NoException

\* C23 (as stated; violated): a PulseBlasterCWODMR or PulseBlasterPulsedODMR
\* program_pulser_state call that raises before any driver call (infeasible
\* width, or rf_pulse_justify not one of left / center / right /
\* start_center) leaves rf_width as it was before the call.
C23_RaiseBeforeHardwareKeepsRfWidth ==
    (ProgramCall /\ prev.cls \in {"CWODMR", "PulsedODMR"}
        /\ last.exc # NoException /\ calls = << >>)
        => self.rf_width = prev.rf_width

\* C24 (as stated; violated): after a PulseBlasterPulsedODMR
\* program_pulser_state call that was given an rf_width override and returned
\* normally, the rf_width it stored and uploaded still satisfies aom_width +
\* aom_response_time + pre_rf_pad + rf_width + post_rf_pad <
\* full_cycle_width / 2 (so that a following call without override passes
\* validation).
C24_StoredOverrideFeasible ==
    (ProgramCall /\ prev.cls = "PulsedODMR" /\ Truthy(last.args[1])
        /\ last.exc = NoException)
        => 2 * (self.aom_width + self.aom_response_time + self.pre_rf_pad
                + self.rf_width + self.post_rf_pad) < self.full_cycle_width[1]

\* C25 (as stated; violated): in every cycle a PulseBlasterPulsedODMR
\* program_pulser_state call uploads, under each of the four justifications,
\* the RF interval (when not empty) overlaps neither AOM interval: it ends no
\* later than the AOM interval starts, or starts no earlier than it ends.
C25_RfOutsideAom ==
    (ProgramCall /\ self.cls = "PulsedODMR" /\ Called("program")) =>
        \A i \in Indices("on"), k \in Indices("on") :
            (calls[i].args[1] = rf_channel /\ calls[k].args[1] = aom_channel
                /\ calls[i].args[3] > 0)
                => \/ calls[i].args[2] + calls[i].args[3] <= calls[k].args[2]
                   \/ calls[k].args[2] + calls[k].args[3] <= calls[i].args[2]

\* C26 (as stated; violated): after every PulseBlasterRamHahnDD
\* program_pulser_state call that returned normally,
\* left_pi_over_2_pulse_start, right_pi_over_2_pulse_start and
\* pi_pulse_start_times hold the start times of the first, the last and the
\* n refocussing pulses of the sequence just computed.
C26_DiagnosticsPopulated ==
    (ProgramCall /\ prev.cls = "RamHahnDD" /\ last.exc = NoException) =>
        LET pulses == self.rf_start_and_duration
        IN  /\ self.left_pi_over_2_pulse_start = Some(pulses[1][1])
            /\ self.right_pi_over_2_pulse_start = Some(pulses[Len(pulses)][1])
            /\ self.pi_pulse_start_times
                  = [i \in 1..self.n_refocussing_pi_pulses |-> pulses[i + 1][1]]

\* C27: a direct call of PulseBlasterRamHahnDD.compute_rf_pulse_sequence,
\* whether it returns a sequence or raises PulseTrainWidthError, issues no
\* driver call, builds no PBInd, leaves the board and every attribute of the
\* object as they were, and when it is called again with the same arguments
\* it ends as the first call did (same result or same exception).
C27_ComputeIsPure ==
    [][last'.op = "compute_rf_pulse_sequence"
        => /\ self' = self
           /\ board_open' = board_open
           /\ calls' = << >> /\ on_time' = None
           /\ last'.exc \in {NoException, "PulseTrainWidthError"}
           /\ last'.consecutive => (last'.ret = last.ret /\ last'.exc = last.exc)]_vars

\* compute_rf_pulse_sequence(40 ns, 2) was called twice in a row on an object
\* that had uploaded a cycle before, and returned its four pulses
C27_Witness ==
    /\ last.op = "compute_rf_pulse_sequence" /\ last.consecutive
    /\ last.args = <<40, 2>>
    /\ last.exc = NoException
    /\ Len(Val(last.ret)[1]) = 4
    /\ self.full_cycle_width # None
    /\ prev = self

\* C28: the methods take no lock.  When the two callers serialize their
\* calls and no driver call fails, no driver call of one caller's method
\* falls between the pb_init and the pb_close of the other's: before any
\* later call of the other caller, the caller that issued pb_init has
\* issued pb_close.  (Without serialization the state C28_Witness is
\* reachable.)
C28_SerializedCallsDoNotInterleave ==
    (threads.serialized /\ \A k \in DOMAIN threads.trace : threads.trace[k].ret = 0) =>
        \A i \in DOMAIN threads.trace, k \in DOMAIN threads.trace :
            (i < k /\ threads.trace[i].fn = "pb_init"
                /\ threads.trace[k].caller # threads.trace[i].caller)
                => \E j \in (i + 1)..(k - 1) :
                        /\ threads.trace[j].fn = "pb_close"
                        /\ threads.trace[j].caller = threads.trace[i].caller

\* without serialization: the pb_close of caller A's start / stop / reset
\* lies between caller B's pb_start_programming and pb_stop_programming
C28_Witness ==
    /\ ~threads.serialized
    /\ \E i \in DOMAIN threads.trace, k \in DOMAIN threads.trace,
          j \in DOMAIN threads.trace :
        /\ i < k /\ k < j
        /\ threads.trace[i].caller = "B"
        /\ threads.trace[i].fn = "pb_start_programming"
        /\ threads.trace[k].caller = "A" /\ threads.trace[k].fn = "pb_close"
        /\ threads.trace[j].caller = "B"
        /\ threads.trace[j].fn = "pb_stop_programming"
        /\ \E a \in 1..(k - 1) :
              threads.trace[a].caller = "A"
                /\ threads.trace[a].fn \in {"pb_start", "pb_stop", "pb_reset"}

\* C29 (as stated; violated): load_library leaves _library_loader.other_dirs
\* exactly as it was before the call, whether the registry already held the
\* name, the library was loaded, or loading failed with QT3Error, also when
\* a supplied path was in the list before the call.
C29_SearchDirsUnchanged ==
    loaded.op = "load_library" => other_dirs = loaded.other_dirs_before

====
